---- MODULE Spec2Model ----
(***************************************************************************)
(* Model of Tools/update_billboard.py: the Billboard Hot 100 scraper.      *)
(*                                                                         *)
(* Text is modelled character by character: a Python str is a sequence of  *)
(* one-character strings, so that norm_text, the regular expressions,      *)
(* str.split, str.strip, datetime.strptime and strftime are computed the   *)
(* way the code computes them.  The characters outside ASCII are written  *)
(* as named code points: "NBSP" (U+00A0), "ZWSP" (U+200B), and the curly   *)
(* quotes "LDQ" (U+201C) and "RDQ" (U+201D).                               *)
(***************************************************************************)
EXTENDS Integers, Sequences, FiniteSets, TLC

(***************************************************************************)
(* Configuration (lines 45-50)                                             *)
(***************************************************************************)
RETRY_COUNT == 3
START_YEAR == 1958
\* THIS_YEAR is datetime.utcnow().year; the model runs NumYears years.
NumYears == 2
THIS_YEAR == START_YEAR + NumYears - 1
Years == START_YEAR..THIS_YEAR

\* Optional[str]: None is a one-element sequence no text can equal
\* (every element of a text is a single character or a named code point).
None == <<"None">>

(***************************************************************************)
(* Characters                                                              *)
(***************************************************************************)
UpperCase == <<"A","B","C","D","E","F","G","H","I","J","K","L","M",
               "N","O","P","Q","R","S","T","U","V","W","X","Y","Z">>
LowerCase == <<"a","b","c","d","e","f","g","h","i","j","k","l","m",
               "n","o","p","q","r","s","t","u","v","w","x","y","z">>
DigitChars == <<"0","1","2","3","4","5","6","7","8","9">>

IsDigit(c) == c \in {"0","1","2","3","4","5","6","7","8","9"}
DigitVal(c) == (CHOOSE i \in 1..10 : DigitChars[i] = c) - 1
\* \s of re and the default of str.strip / str.split
IsSpace(c) == c \in {" ", "\t", "\n"}

\* str.lower on one character
LowerChar(c) ==
    IF \E i \in 1..26 : UpperCase[i] = c
    THEN LowerCase[CHOOSE i \in 1..26 : UpperCase[i] = c]
    ELSE c
\* str.lower
Lower(s) == [i \in DOMAIN s |-> LowerChar(s[i])]

\* ordinal of a character, in code point order, for the characters compared
CharOrd(c) ==
    IF c = " " THEN 32
    ELSE IF c = "-" THEN 45
    ELSE IF IsDigit(c) THEN 48 + DigitVal(c)
    ELSE IF \E i \in 1..26 : UpperCase[i] = c
         THEN 64 + (CHOOSE i \in 1..26 : UpperCase[i] = c)
    ELSE IF \E i \in 1..26 : LowerCase[i] = c
         THEN 96 + (CHOOSE i \in 1..26 : LowerCase[i] = c)
    ELSE 200

\* s <= t in the lexicographic order of Python strings
RECURSIVE StrLeq(_, _)
StrLeq(s, t) ==
    IF s = <<>> THEN TRUE
    ELSE IF t = <<>> THEN FALSE
    ELSE IF CharOrd(Head(s)) < CharOrd(Head(t)) THEN TRUE
    ELSE IF CharOrd(Head(s)) > CharOrd(Head(t)) THEN FALSE
    ELSE StrLeq(Tail(s), Tail(t))

(***************************************************************************)
(* String helpers of the standard library, as the code uses them           *)
(***************************************************************************)
\* str.strip(chars), chars given as a set
RECURSIVE LStrip(_, _)
LStrip(s, chars) ==
    IF s # <<>> /\ Head(s) \in chars THEN LStrip(Tail(s), chars) ELSE s
RECURSIVE RStrip(_, _)
RStrip(s, chars) ==
    IF s # <<>> /\ s[Len(s)] \in chars
    THEN RStrip(SubSeq(s, 1, Len(s) - 1), chars) ELSE s
Strip(s, chars) == RStrip(LStrip(s, chars), chars)

WhiteSpace == {" ", "\t", "\n"}

\* re.sub(r"\s+", " ", s)
RECURSIVE CollapseSpaces(_)
CollapseSpaces(s) ==
    IF s = <<>> THEN <<>>
    ELSE IF IsSpace(Head(s))
         THEN <<" ">> \o CollapseSpaces(LStrip(Tail(s), WhiteSpace))
         ELSE <<Head(s)>> \o CollapseSpaces(Tail(s))

\* re.sub(r"[.,]", "", s)
RECURSIVE RemovePunct(_)
RemovePunct(s) ==
    IF s = <<>> THEN <<>>
    ELSE IF Head(s) \in {".", ","} THEN RemovePunct(Tail(s))
    ELSE <<Head(s)>> \o RemovePunct(Tail(s))

\* length of the longest prefix of s without white space
RECURSIVE WordLen(_)
WordLen(s) ==
    IF s = <<>> \/ IsSpace(Head(s)) THEN 0 ELSE 1 + WordLen(Tail(s))

\* str.split() with no argument
RECURSIVE Split(_)
Split(s) ==
    LET t == LStrip(s, WhiteSpace) IN
    IF t = <<>> THEN <<>>
    ELSE <<SubSeq(t, 1, WordLen(t))>> \o Split(SubSeq(t, WordLen(t) + 1, Len(t)))

\* the Python "sub in s", for a sub that is not empty
Contains(s, sub) ==
    \E i \in 1..(Len(s) - Len(sub) + 1) :
        s[i] = sub[1] /\ SubSeq(s, i, i + Len(sub) - 1) = sub

\* int(s) for a string of decimal digits
RECURSIVE StrToNat(_)
StrToNat(s) ==
    IF s = <<>> THEN 0
    ELSE 10 * StrToNat(SubSeq(s, 1, Len(s) - 1)) + DigitVal(s[Len(s)])

\* the decimal digits of n, zero padded to at least w characters
RECURSIVE NatToStr(_, _)
NatToStr(n, w) ==
    IF n < 10 /\ w <= 1 THEN <<DigitChars[n + 1]>>
    ELSE NatToStr(n \div 10, w - 1) \o <<DigitChars[(n % 10) + 1]>>

\* str.isdigit
AllDigits(s) == s # <<>> /\ \A i \in DOMAIN s : IsDigit(s[i])

(***************************************************************************)
(* norm_text (lines 91-97)                                                 *)
(***************************************************************************)
norm_text(s) ==
    IF s = <<>> THEN <<>>
    ELSE LET r == [i \in DOMAIN s |->
                      IF s[i] \in {"NBSP", "ZWSP"} THEN " " ELSE s[i]]
         IN  CollapseSpaces(Strip(r, WhiteSpace))

(***************************************************************************)
(* datetime.strptime(s, "%B %d %Y") and strftime("%Y-%m-%d")               *)
(***************************************************************************)
\* the month names %B accepts (calendar.month_name, C locale)
MonthNames == <<
    <<"J","a","n","u","a","r","y">>,
    <<"F","e","b","r","u","a","r","y">>,
    <<"M","a","r","c","h">>,
    <<"A","p","r","i","l">>,
    <<"M","a","y">>,
    <<"J","u","n","e">>,
    <<"J","u","l","y">>,
    <<"A","u","g","u","s","t">>,
    <<"S","e","p","t","e","m","b","e","r">>,
    <<"O","c","t","o","b","e","r">>,
    <<"N","o","v","e","m","b","e","r">>,
    <<"D","e","c","e","m","b","e","r">> >>

\* the month number named by word, compared without case; 0 if none
MonthOf(word) ==
    IF \E m \in 1..12 : Lower(MonthNames[m]) = Lower(word)
    THEN CHOOSE m \in 1..12 : Lower(MonthNames[m]) = Lower(word)
    ELSE 0

IsLeap(y) == (y % 4 = 0 /\ y % 100 # 0) \/ y % 400 = 0
DaysInMonth(m, y) ==
    IF m = 2 THEN (IF IsLeap(y) THEN 29 ELSE 28)
    ELSE IF m \in {4, 6, 9, 11} THEN 30 ELSE 31

\* the directive %d: 3[0-1] | [1-2]\d | 0[1-9] | [1-9]
MatchesDay(w) ==
    \/ Len(w) = 2 /\ w[1] = "3" /\ w[2] \in {"0", "1"}
    \/ Len(w) = 2 /\ w[1] \in {"1", "2"} /\ IsDigit(w[2])
    \/ Len(w) = 2 /\ w[1] = "0" /\ IsDigit(w[2]) /\ w[2] # "0"
    \/ Len(w) = 1 /\ IsDigit(w[1]) /\ w[1] # "0"

\* the directive %Y: \d\d\d\d
MatchesYear(w) == Len(w) = 4 /\ AllDigits(w)

ValueError == [error |-> TRUE, year |-> 0, month |-> 0, day |-> 0]

\* datetime.strptime(s, "%B %d %Y"): the three directives separated by
\* white space must cover s exactly, and name a date of the calendar.
\* The result is a datetime (year, month, day) or ValueError.
strptime(s) ==
    LET w == Split(s) IN
    IF s = <<>> \/ IsSpace(s[1]) \/ IsSpace(s[Len(s)]) \/ Len(w) # 3
    THEN ValueError
    ELSE IF MonthOf(w[1]) = 0 \/ ~MatchesDay(w[2]) \/ ~MatchesYear(w[3])
    THEN ValueError
    ELSE LET y == StrToNat(w[3])
             m == MonthOf(w[1])
             d == StrToNat(w[2])
         IN  IF y < 1 \/ d > DaysInMonth(m, y) THEN ValueError
             ELSE [error |-> FALSE, year |-> y, month |-> m, day |-> d]

\* dt.strftime("%Y-%m-%d")
strftime(dt) ==
    NatToStr(dt.year, 4) \o <<"-">> \o NatToStr(dt.month, 2)
        \o <<"-">> \o NatToStr(dt.day, 2)

\* str(year_hint)
IntStr(n) == NatToStr(n, 1)

\* f"{a} {b} {c}"
Join3(a, b, c) == a \o <<" ">> \o b \o <<" ">> \o c

(***************************************************************************)
(* try_parse_date (lines 99-139)                                           *)
(***************************************************************************)
\* re.match(r"(\d{4})-(\d{2})-(\d{2})", t): a match at the start of t only
IsoMatch(t) ==
    /\ Len(t) >= 10
    /\ \A i \in {1, 2, 3, 4, 6, 7, 9, 10} : IsDigit(t[i])
    /\ t[5] = "-" /\ t[8] = "-"

\* the month whose name, without case, is at position i of s and is followed
\* by white space and a digit: a match of
\* (January|...|December)\s+(\d{1,2}) with re.I at i; 0 if there is none
MonthDayAt(s, i) ==
    LET ms == {m \in 1..12 :
                LET n == Len(MonthNames[m]) IN
                /\ i + n <= Len(s)
                /\ LowerChar(s[i]) = LowerChar(MonthNames[m][1])
                /\ Lower(SubSeq(s, i, i + n - 1)) = Lower(MonthNames[m])
                /\ IsSpace(s[i + n])
                /\ LStrip(SubSeq(s, i + n, Len(s)), WhiteSpace) # <<>>
                /\ IsDigit(LStrip(SubSeq(s, i + n, Len(s)), WhiteSpace)[1])}
    IN  IF ms = {} THEN 0 ELSE CHOOSE m \in ms : TRUE

Min(S) == CHOOSE x \in S : \A z \in S : x <= z

\* re.search(...): the groups (month, day) of the leftmost match, or None
MonthDaySearch(s) ==
    LET hits == {i \in 1..Len(s) : MonthDayAt(s, i) # 0} IN
    IF hits = {} THEN [found |-> FALSE, month |-> <<>>, day |-> <<>>]
    ELSE LET i == Min(hits)
             n == Len(MonthNames[MonthDayAt(s, i)])
             digits == LStrip(SubSeq(s, i + n, Len(s)), WhiteSpace)
         IN  [found |-> TRUE,
              month |-> SubSeq(s, i, i + n - 1),
              day   |-> IF Len(digits) >= 2 /\ IsDigit(digits[2])
                        THEN SubSeq(digits, 1, 2) ELSE SubSeq(digits, 1, 1)]

\* lines 128-139: the 'Week of January 7' fallback
ParseMonthDaySearch(cleaned, year_hint) ==
    LET m2 == MonthDaySearch(cleaned) IN
    IF ~m2.found THEN None
    ELSE LET dt == strptime(Join3(m2.month, m2.day, IntStr(year_hint)))
         IN  IF dt.error THEN None ELSE strftime(dt)

try_parse_date(cell_text, year_hint) ==
    LET t == norm_text(cell_text)
        cleaned == RemovePunct(t)
        parts == Split(cleaned)
    IN  IF t = <<>> THEN None
        ELSE IF IsoMatch(t) THEN t
        ELSE IF Len(parts) = 2
        THEN LET dt == strptime(Join3(parts[1], parts[2], IntStr(year_hint)))
             IN  IF dt.error THEN ParseMonthDaySearch(cleaned, year_hint)
                 ELSE strftime(dt)
        ELSE IF Len(parts) = 3 /\ AllDigits(parts[3]) /\ Len(parts[3]) = 4
        THEN LET dt == strptime(Join3(parts[1], parts[2], parts[3]))
             IN  IF dt.error THEN ParseMonthDaySearch(cleaned, year_hint)
                 ELSE strftime(dt)
        ELSE ParseMonthDaySearch(cleaned, year_hint)

(***************************************************************************)
(* The parsed page.  A page is the sequence of its tables of class         *)
(* wikitable, in document order.  A table is a record                      *)
(*   thead : the rows (tr) inside its thead, empty if it has none          *)
(*   tbody : whether the rows of body are wrapped in a tbody element       *)
(*   body  : its other rows                                                *)
(* and a row is the sequence of the get_text(" ") of its td/th cells.      *)
(***************************************************************************)
DateKeys == { <<"i","s","s","u","e"," ","d","a","t","e">>,
              <<"d","a","t","e">>,
              <<"w","e","e","k"," ","o","f">> }
SongKeys == { <<"s","o","n","g">>,
              <<"s","i","n","g","l","e">>,
              <<"t","i","t","l","e">> }
ArtistKeys == { <<"a","r","t","i","s","t","(","s",")">>,
                <<"a","r","t","i","s","t">> }

\* the role lines 162-167 give a header cell, "" if none
RoleOf(text) ==
    LET low == Lower(norm_text(text)) IN
    IF \E k \in DateKeys : Contains(low, k) THEN "date"
    ELSE IF \E k \in SongKeys : Contains(low, k) THEN "song"
    ELSE IF \E k \in ArtistKeys : Contains(low, k) THEN "artist"
    ELSE ""

Max(S) == CHOOSE x \in S : \A z \in S : z <= x

\* lines 147-156: the header row, <<>> if the table has no tr at all.
\* (A tr without cells gives the same empty mapping as no tr.)
HeaderRow(table) ==
    IF table.thead # <<>> THEN table.thead[1]
    ELSE IF table.body # <<>> THEN table.body[1]
    ELSE <<>>

\* header_map_from_table (lines 141-168): role -> zero-based column index;
\* a later cell of the same role overwrites an earlier one.
header_map_from_table(table) ==
    LET ths == HeaderRow(table)
        cols(r) == {i \in 1..Len(ths) : RoleOf(ths[i]) = r}
    IN  [r \in {q \in {"date", "song", "artist"} : cols(q) # {}}
            |-> Max(cols(r)) - 1]

SkipTable_DateSong(hmap) ==
    "date" \notin DOMAIN hmap \/ "song" \notin DOMAIN hmap

\* line 178: the table is walked unless this holds
SkipTable(hmap) ==
    DOMAIN hmap = {} \/ "song" \notin DOMAIN hmap \/ "artist" \notin DOMAIN hmap

\* lines 182-184: body.find_all("tr"), body being the tbody if there is one
BodyRows(table) ==
    IF table.tbody THEN table.body ELSE table.thead \o table.body

\* WIKI_YEAR_URL.format(year=year) (line 33, 248)
WIKI_YEAR_URL(year) ==
    [page |-> "List_of_Billboard_Hot_100_number_ones_of", year |-> year]

QuoteChars == {"LDQ", "RDQ", "\"", "'", " "}

\* lines 186-199: TRUE if the row is skipped before a WeekRow is built
\* (the KeyError or IndexError of lines 191-192 is caught at line 193)
SkipRow(tds, hmap) ==
    \/ Len(tds) < 2
    \/ "song" \notin DOMAIN hmap
    \/ "artist" \notin DOMAIN hmap
    \/ hmap["song"] >= Len(tds)
    \/ hmap["artist"] >= Len(tds)
    \/ norm_text(tds[hmap["song"] + 1]) = <<>>
    \/ norm_text(tds[hmap["artist"] + 1]) = <<>>

\* lines 201-204
IssueIso(tds, hmap, year) ==
    IF "date" \in DOMAIN hmap /\ hmap["date"] < Len(tds)
    THEN try_parse_date(tds[hmap["date"] + 1], year)
    ELSE None

\* the year an ISO date names
IsoYear(d) == StrToNat(SubSeq(d, 1, 4))

WeekRow_YearOfDate(tds, hmap, year, source_url, row_idx) ==
    [year       |-> IF IssueIso(tds, hmap, year) = None THEN year
                    ELSE IsoYear(IssueIso(tds, hmap, year)),
     issue_date |-> IssueIso(tds, hmap, year),
     week       |-> IssueIso(tds, hmap, year),
     song       |-> Strip(norm_text(tds[hmap["song"] + 1]), QuoteChars),
     artist     |-> Strip(norm_text(tds[hmap["artist"] + 1]), QuoteChars),
     source     |-> source_url,
     row_index  |-> row_idx]

\* lines 206-214: the WeekRow of a row that is kept
WeekRow(tds, hmap, year, source_url, row_idx) ==
    [year       |-> year,
     issue_date |-> IssueIso(tds, hmap, year),
     week       |-> IssueIso(tds, hmap, year),
     song       |-> Strip(norm_text(tds[hmap["song"] + 1]), QuoteChars),
     artist     |-> Strip(norm_text(tds[hmap["artist"] + 1]), QuoteChars),
     source     |-> source_url,
     row_index  |-> row_idx]

\* lines 183-216: the rows of one table that passed line 178
RECURSIVE TableRows(_, _, _, _, _)
TableRows(trs, hmap, year, source_url, row_idx) ==
    IF trs = <<>> THEN <<>>
    ELSE IF SkipRow(Head(trs), hmap)
         THEN TableRows(Tail(trs), hmap, year, source_url, row_idx)
         ELSE <<WeekRow(Head(trs), hmap, year, source_url, row_idx)>>
              \o TableRows(Tail(trs), hmap, year, source_url, row_idx + 1)

\* the indices of the tables of the page whose rows are walked (line 181 on)
WalkedTables(tables) ==
    {i \in 1..Len(tables) : ~SkipTable(header_map_from_table(tables[i]))}

\* extract_rows_for_year (lines 170-218), on the parsed page
RECURSIVE extract_rows_for_year(_, _, _)
extract_rows_for_year(tables, year, source_url) ==
    IF tables = <<>> THEN <<>>
    ELSE LET hmap == header_map_from_table(Head(tables)) IN
         (IF SkipTable(hmap) THEN <<>>
          ELSE TableRows(BodyRows(Head(tables)), hmap, year, source_url, 0))
         \o extract_rows_for_year(Tail(tables), year, source_url)

(***************************************************************************)
(* The pages the fetch may return: resp.text is the number of a page here. *)
(***************************************************************************)
\* header row in the tbody, quoted titles
Page1 ==
    << [thead |-> <<>>,
      tbody |-> TRUE,
      body  |-> <<
          <<<<"I","s","s","u","e"," ","d","a","t","e">>, <<"S","o","n","g">>, <<"A","r","t","i","s","t","(","s",")">>>>,
          <<<<"J","a","n","u","a","r","y"," ","6">>, <<"LDQ","H","e","y","RDQ">>, <<"A","b","b","a">>>>,
          <<<<"J","a","n","."," ","1","3">>, <<"\"","H","e","y","\"">>, <<"A","b","b","a">>>> >>] >>

\* thead and tbody, rows out of date order, a repeated week
Page2 ==
    << [thead |-> <<
          <<<<"D","a","t","e">>, <<"S","i","n","g","l","e">>, <<"A","r","t","i","s","t">>>> >>,
      tbody |-> TRUE,
      body  |-> <<
          <<<<"M","a","r","c","h"," ","3">>, <<"Z","e","d">>, <<"A","b","b","a">>>>,
          <<<<"J","a","n","u","a","r","y"," ","6">>, <<"H","e","y">>, <<"A","b","b","a">>>>,
          <<<<"W","e","e","k"," ","o","f"," ","J","a","n","u","a","r","y"," ","6">>, <<"h","e","y">>, <<"A","B","B","A">>>> >>] >>

\* a table without a date column, then a table without an artist column
Page3 ==
    << [thead |-> <<>>,
      tbody |-> FALSE,
      body  |-> <<
          <<<<"S","o","n","g">>, <<"A","r","t","i","s","t">>>>,
          <<<<"H","e","y">>, <<"A","b","b","a">>>> >>],
       [thead |-> <<
          <<<<"I","s","s","u","e"," ","d","a","t","e">>, <<"S","o","n","g">>>> >>,
      tbody |-> TRUE,
      body  |-> <<
          <<<<"J","a","n","u","a","r","y"," ","6">>, <<"H","e","y">>>> >>] >>

\* dates with a year of their own, a title of quotes only, short rows, an empty artist
Page4 ==
    << [thead |-> <<
          <<<<"I","s","s","u","e"," ","d","a","t","e">>, <<"S","o","n","g">>, <<"A","r","t","i","s","t","(","s",")">>>> >>,
      tbody |-> TRUE,
      body  |-> <<
          <<<<"J","a","n","u","a","r","y"," ","6",","," ","1","9","5","9">>, <<"H","e","y">>, <<"A","b","b","a">>>>,
          <<<<"1","9","6","0","-","0","1","-","0","2">>, <<"\"","\"">>, <<"A","b","b","a">>>>,
          <<<<"H","e","y">>>>,
          <<<<"J","a","n","u","a","r","y"," ","2","0">>, <<"H","e","y">>>>,
          <<<<"n","o","t"," ","a"," ","d","a","t","e">>, <<"Z","e","d">>, <<"NBSP">>>> >>] >>

\* no table of class wikitable
Page5 == <<>>

Pages == << Page1, Page2, Page3, Page4, Page5 >>

(***************************************************************************)
(* Inputs of the specification of try_parse_date alone                     *)
(***************************************************************************)
Txt_January_6      == <<"J","a","n","u","a","r","y"," ","6">>
Txt_Jan_6_2018     == <<"J","a","n","."," ","6",","," ","2","0","1","8">>
Txt_2018_01_06     == <<"2","0","1","8","-","0","1","-","0","6">>
Txt_not_a_date     == <<"n","o","t"," ","a"," ","d","a","t","e">>
Txt_January_6_2018 == <<"J","a","n","u","a","r","y"," ","6",","," ","2","0","1","8">>
Txt_Week_of        == <<"W","e","e","k"," ","o","f"," ","J","a","n","u","a","r","y"," ","7">>
Txt_Sept_30        == <<"S","e","p","t","."," ","3","0">>
Txt_2018_13_45     == <<"2","0","1","8","-","1","3","-","4","5">>
Txt_February_29    == <<"F","e","b","r","u","a","r","y"," ","2","9">>
Txt_may_31         == <<"NBSP"," ","m","a","y"," ","3","1"," ">>
CellTexts ==
    { Txt_January_6, Txt_Jan_6_2018, Txt_2018_01_06, Txt_not_a_date,
      Txt_January_6_2018, Txt_Week_of, Txt_Sept_30, Txt_2018_13_45,
      Txt_February_29, Txt_may_31, <<>> }
YearHints == {1958, 1960, 1999, 2018, 2019}

(***************************************************************************)
(* State                                                                   *)
(***************************************************************************)
VARIABLES
    pc,          \* position of main / scrape_year / write_year_json
    y,           \* the loop variable of main (line 268)
    reqs,        \* the outcomes of the requests of the fetch_html call that
                 \* is running or has just ended
    last_exc,    \* last_exc of fetch_html (line 76), "none" for None
    html,        \* the page fetch_html returned (index in Pages), 0 if none
    rows,        \* rows of scrape_year (line 251)
    walked,      \* the tables of the page whose rows were walked (line 181)
    in_except,   \* scrape_year is in its except clause (lines 257-261)
    caught,      \* the exception caught at line 257, "none" if none
    returned,    \* what scrape_year returned, -1 before it returns
    failed_years,\* the years whose fetch or extraction raised
    total_rows,  \* total_rows of main (line 267)
    files,       \* per year, the file <year>.json
    combined,    \* combined_rows of main (line 271)
    all_json,    \* the file all.json
    csv_file,    \* the file billboard_hot100_weekly.csv
    write_raised,\* the artifacts one of whose writes raised
    propagated,  \* the exception that left main, "none" if none
    cell_text,   \* argument of try_parse_date (specification DateSpec)
    year_hint,   \* argument of try_parse_date (specification DateSpec)
    parsed       \* result of try_parse_date (specification DateSpec)

vars == <<pc, y, reqs, last_exc, html, rows, walked, in_except, caught,
          returned, failed_years, total_rows, files, combined, all_json, csv_file,
          write_raised, propagated, cell_text, year_hint, parsed>>

scrape_vars == <<reqs, last_exc, html, rows, walked, in_except>>
year_vars == <<caught, returned, failed_years>>
out_vars == <<combined, all_json, csv_file>>
date_vars == <<cell_text, year_hint, parsed>>

\* A file: absent, or its content.  open(path, "w") truncates it; it is
\* complete when the whole JSON document was written and the file closed.
Absent == [exists |-> FALSE, complete |-> FALSE, data |-> <<>>]
Truncated == [exists |-> TRUE, complete |-> FALSE, data |-> <<>>]
Complete(data) == [exists |-> TRUE, complete |-> TRUE, data |-> data]
Partial(data) == [exists |-> TRUE, complete |-> FALSE, data |-> data]

\* what requests.get can do: a response with a status and a text, or raise
Responses ==
    {[status |-> 200, text |-> p, exc |-> "none"] : p \in 1..Len(Pages)}
    \cup {[status |-> st, text |-> 0, exc |-> "none"] : st \in {404, 503}}
Raises ==
    {[status |-> 0, text |-> 0, exc |-> e] : e \in {"ConnectionError", "Timeout"}}

Init ==
    /\ pc = "start"
    /\ y = START_YEAR
    /\ reqs = <<>>
    /\ last_exc = "none"
    /\ html = 0
    /\ rows = <<>>
    /\ walked = {}
    /\ in_except = FALSE
    /\ caught = "none"
    /\ returned = -1
    /\ failed_years = {}
    /\ total_rows = 0
    \* a first run, or a run over the files an earlier run left
    /\ files \in {[yy \in Years |-> Absent], [yy \in Years |-> Complete(<<>>)]}
    /\ combined = <<>>
    /\ all_json = Absent
    /\ csv_file = Absent
    /\ write_raised = {}
    /\ propagated = "none"
    /\ cell_text = <<>>
    /\ year_hint = 0
    /\ parsed = None

(***************************************************************************)
(* main (lines 263-280) and ensure_dirs (lines 71-72)                      *)
(***************************************************************************)
\* line 265: os.makedirs succeeds
EnsureDirs ==
    /\ pc = "start"
    /\ pc' = "fetch"
    /\ UNCHANGED <<y, scrape_vars, year_vars, total_rows, files,
                   out_vars, write_raised, propagated, date_vars>>

\* line 265: os.makedirs raises, and nothing in main catches it
EnsureDirsRaises ==
    /\ pc = "start"
    /\ pc' = "aborted"
    /\ propagated' = "OSError"
    /\ write_raised' = write_raised \cup {"dir"}
    /\ UNCHANGED <<y, scrape_vars, year_vars, total_rows, files,
                   out_vars, date_vars>>

(***************************************************************************)
(* fetch_html (lines 74-89), called at line 250                            *)
(***************************************************************************)
MoreAttempts_OneMore(n) == n <= RETRY_COUNT

\* line 77: the loop body runs for attempt = 1..RETRY_COUNT
MoreAttempts(n) == n < RETRY_COUNT

\* lines 87-89: what fetch_html raises after the loop
FetchRaises(exc) == IF exc # "none" THEN exc ELSE "RuntimeError"

\* the exceptions of fetch_html and of extract_rows_for_year
FetchErrors == {"ConnectionError", "Timeout", "RuntimeError"}
FetchOrExtractErrors == FetchErrors \cup {"FeatureNotFound"}

ExceptPc_Propagates(exc) ==
    IF exc \in FetchOrExtractErrors THEN "aborted" ELSE "open"

\* lines 257-260: an exception of the try block of scrape_year is caught,
\* whatever it is, and the handler goes on to write the empty file
ExceptPc(exc) == "open"

\* one iteration of the loop that gets status 200: fetch_html returns
RequestOk ==
    /\ pc = "fetch"
    /\ MoreAttempts(Len(reqs))
    /\ \E r \in Responses :
        /\ r.status = 200
        /\ reqs' = Append(reqs, r)
        /\ html' = r.text
    /\ pc' = "extract"
    /\ UNCHANGED <<y, last_exc, rows, walked, in_except, year_vars,
                   total_rows, files, out_vars, write_raised, propagated,
                   date_vars>>

\* one iteration of the loop that gets another status or an exception;
\* after the last one the loop ends, fetch_html raises (lines 87-89) and
\* scrape_year catches it (line 257)
RequestFails ==
    /\ pc = "fetch"
    /\ MoreAttempts(Len(reqs))
    /\ \E r \in Responses \cup Raises :
        /\ r.status # 200
        /\ reqs' = Append(reqs, r)
        /\ last_exc' = IF r.exc # "none" THEN r.exc ELSE last_exc
    /\ IF MoreAttempts(Len(reqs'))
       THEN UNCHANGED <<pc, in_except, caught>>
       ELSE /\ caught' = FetchRaises(last_exc')
            /\ in_except' = TRUE
            /\ pc' = ExceptPc(caught')
    /\ propagated' = IF pc' = "aborted" THEN caught' ELSE propagated
    /\ UNCHANGED <<y, html, rows, walked, returned, failed_years, total_rows,
                   files, out_vars, write_raised, date_vars>>

(***************************************************************************)
(* scrape_year (lines 247-261)                                             *)
(***************************************************************************)
\* the locals of the fetch_html call that ended are gone
FetchEnded == reqs' = <<>> /\ last_exc' = "none"

\* line 251
Extract ==
    /\ pc = "extract"
    /\ rows' = extract_rows_for_year(Pages[html], y, WIKI_YEAR_URL(y))
    /\ walked' = WalkedTables(Pages[html])
    /\ pc' = "open"
    /\ FetchEnded
    /\ UNCHANGED <<y, html, in_except, year_vars,
                   total_rows, files, out_vars, write_raised, propagated,
                   date_vars>>

\* line 251 raises: BeautifulSoup(html, "lxml") finds no lxml parser
ExtractRaises ==
    /\ pc = "extract"
    /\ caught' = "FeatureNotFound"
    /\ in_except' = TRUE
    /\ pc' = ExceptPc(caught')
    /\ propagated' = IF pc' = "aborted" THEN caught' ELSE propagated
    /\ FetchEnded
    /\ UNCHANGED <<y, html, rows, walked, returned,
                   failed_years, total_rows, files, out_vars, write_raised,
                   date_vars>>

\* the second argument of write_year_json: rows at line 252, [] at line 260
WriteData == IF in_except THEN <<>> ELSE rows

\* the value scrape_year returns: len(rows) at line 256, 0 at line 261
ReturnValue == IF in_except THEN 0 ELSE Len(rows)

\* lines 268-271: main adds what scrape_year returned to total_rows and
\* goes to the next iteration of its loop, or to combine_all_years
MainLoop ==
    /\ pc = "returned"
    /\ total_rows' = total_rows + returned
    /\ failed_years' = IF caught \in FetchOrExtractErrors
                       THEN failed_years \cup {y} ELSE failed_years
    /\ y' = y + 1
    /\ pc' = IF y < THIS_YEAR THEN "fetch" ELSE "combine"
    /\ reqs' = <<>>
    /\ last_exc' = "none"
    /\ html' = 0
    /\ rows' = <<>>
    /\ walked' = {}
    /\ in_except' = FALSE
    /\ caught' = "none"
    /\ returned' = -1
    /\ UNCHANGED <<files, out_vars, write_raised, propagated, date_vars>>

\* an OSError raised by write_year_json: inside the try block it is caught
\* at line 257 like any other exception; inside the except clause it leaves
\* scrape_year and main
WriteYearRaised ==
    /\ write_raised' = write_raised \cup {"year"}
    /\ IF in_except
       THEN /\ pc' = "aborted"
            /\ propagated' = "OSError"
            /\ UNCHANGED <<in_except, caught>>
       ELSE /\ caught' = "OSError"
            /\ in_except' = TRUE
            /\ pc' = ExceptPc(caught')
            /\ propagated' = IF pc' = "aborted" THEN caught' ELSE propagated

(***************************************************************************)
(* write_year_json (lines 220-224), called at lines 252 and 260            *)
(***************************************************************************)
\* line 223: open(out_path, "w") truncates the file
OpenYear ==
    /\ pc = "open"
    /\ files' = [files EXCEPT ![y] = Truncated]
    /\ pc' = "dump"
    /\ FetchEnded
    /\ UNCHANGED <<y, html, rows, walked, in_except, year_vars, total_rows,
                   out_vars, write_raised, propagated, date_vars>>

\* line 223: open raises (permission, missing directory); the file is as before
OpenYearRaises ==
    /\ pc = "open"
    /\ WriteYearRaised
    /\ FetchEnded
    /\ UNCHANGED <<y, html, rows, walked, returned,
                   failed_years, total_rows, files, out_vars, date_vars>>

\* line 224: json.dump writes the next record of the array to the file
DumpRecord ==
    /\ pc = "dump"
    /\ Len(files[y].data) < Len(WriteData)
    /\ files' = [files EXCEPT ![y] =
                   Partial(Append(@.data, WriteData[Len(@.data) + 1]))]
    /\ UNCHANGED <<pc, y, scrape_vars, year_vars, total_rows, out_vars,
                   write_raised, propagated, date_vars>>

\* line 224: a write or the flush at close raises (disk full); the with
\* statement closes the file and leaves what was written so far
DumpRaises ==
    /\ pc = "dump"
    /\ WriteYearRaised
    /\ UNCHANGED <<y, reqs, last_exc, html, rows, walked, returned,
                   failed_years, total_rows, files, out_vars, date_vars>>

\* lines 223-224 end: the document is complete and the file closed;
\* scrape_year returns (line 256 or 261)
CloseYear ==
    /\ pc = "dump"
    /\ Len(files[y].data) = Len(WriteData)
    /\ files' = [files EXCEPT ![y] = Complete(WriteData)]
    /\ returned' = ReturnValue
    /\ pc' = "returned"
    /\ UNCHANGED <<y, scrape_vars, caught, failed_years, total_rows, out_vars,
                   write_raised, propagated, date_vars>>

(***************************************************************************)
(* combine_all_years (lines 226-243)                                       *)
(***************************************************************************)
\* lines 229-238 for one year: the array of the file, nothing if the file is
\* absent (line 230) or json.load raises on a document that is not complete
\* (line 237).  asdict, json.dump and json.load keep the int, str and None
\* fields of a record as they are.
LoadYear(f) == IF f.exists /\ f.complete THEN f.data ELSE <<>>

\* lines 227-238: the arrays of the years from..THIS_YEAR, one after another
RECURSIVE Concatenate(_, _)
Concatenate(fs, from) ==
    IF from > THIS_YEAR THEN <<>>
    ELSE LoadYear(fs[from]) \o Concatenate(fs, from + 1)

\* lines 227-243: the list combine_all_years builds, writes and returns
CombinedRows(fs) == Concatenate(fs, START_YEAR)

\* line 271: combine_all_years writes all.json and returns
Combine ==
    /\ pc = "combine"
    /\ combined' = CombinedRows(files)
    /\ all_json' = Complete(combined')
    /\ pc' = "csv"
    /\ UNCHANGED <<y, scrape_vars, year_vars, total_rows, files,
                   csv_file, write_raised, propagated, date_vars>>

\* lines 240-241 raise: open fails and all.json is as before, or a write
\* fails and all.json is left truncated; nothing in main catches it
CombineRaises ==
    /\ pc = "combine"
    /\ all_json' \in {all_json, Truncated}
    /\ write_raised' = write_raised \cup {"all"}
    /\ propagated' = "OSError"
    /\ pc' = "aborted"
    /\ UNCHANGED <<y, scrape_vars, year_vars, total_rows, files,
                   combined, csv_file, date_vars>>

(***************************************************************************)
(* write_combined_csv (lines 282-298)                                      *)
(***************************************************************************)
\* lines 289-297: the fields of one CSV row, in the order of fieldnames
CsvRow(r) ==
    <<r.year, r.issue_date, r.week, r.song, r.artist, r.source, r.row_index>>

\* line 272 and line 280: the CSV is written and main returns 0
WriteCsv ==
    /\ pc = "csv"
    /\ csv_file' = Complete([i \in DOMAIN combined |-> CsvRow(combined[i])])
    /\ pc' = "done"
    /\ UNCHANGED <<y, scrape_vars, year_vars, total_rows, files,
                   combined, all_json, write_raised, propagated, date_vars>>

\* lines 285-297 raise; nothing in main catches it
WriteCsvRaises ==
    /\ pc = "csv"
    /\ csv_file' \in {csv_file, Truncated}
    /\ write_raised' = write_raised \cup {"csv"}
    /\ propagated' = "OSError"
    /\ pc' = "aborted"
    /\ UNCHANGED <<y, scrape_vars, year_vars, total_rows, files,
                   combined, all_json, date_vars>>

Next ==
    \/ EnsureDirs
    \/ EnsureDirsRaises
    \/ RequestOk
    \/ RequestFails
    \/ Extract
    \/ ExtractRaises
    \/ OpenYear
    \/ OpenYearRaises
    \/ DumpRecord
    \/ DumpRaises
    \/ CloseYear
    \/ MainLoop
    \/ Combine
    \/ CombineRaises
    \/ WriteCsv
    \/ WriteCsvRaises

Spec == Init /\ [][Next]_vars

\* An iteration of the loop of fetch_html ends: requests.get returns or
\* raises within its timeout (line 79) and time.sleep (line 86) is finite.
FairSpec == Spec /\ WF_vars(RequestOk \/ RequestFails)

(***************************************************************************)
(* try_parse_date alone, on any cell text and year hint                    *)
(***************************************************************************)
DateInit ==
    /\ pc = "parse"
    /\ cell_text \in CellTexts
    /\ year_hint \in YearHints
    /\ parsed = None
    /\ y = START_YEAR
    /\ reqs = <<>>
    /\ last_exc = "none"
    /\ html = 0
    /\ rows = <<>>
    /\ walked = {}
    /\ in_except = FALSE
    /\ caught = "none"
    /\ returned = -1
    /\ failed_years = {}
    /\ total_rows = 0
    /\ files = [yy \in Years |-> Absent]
    /\ combined = <<>>
    /\ all_json = Absent
    /\ csv_file = Absent
    /\ write_raised = {}
    /\ propagated = "none"

ParseDate ==
    /\ pc = "parse"
    /\ parsed' = try_parse_date(cell_text, year_hint)
    /\ pc' = "parsed"
    /\ UNCHANGED <<y, scrape_vars, year_vars, total_rows, files,
                   out_vars, write_raised, propagated, cell_text, year_hint>>

DateNext == ParseDate

DateSpec == DateInit /\ [][DateNext]_vars

(***************************************************************************)
(* Properties                                                              *)
(***************************************************************************)
\* the combined dataset exists once combine_all_years returned
CombineDone == pc \in {"csv", "done"}

\* the rows of scrape_year are those extract_rows_for_year returned
Extracted == pc \in {"open", "dump", "returned"} /\ caught \in {"none", "OSError"}

\* C1: a failure of the fetch or of the extraction of a year does not abort
\* the run: only an OSError of a write ever leaves main; scrape_year returns
\* 0 for that year and its file holds the empty array, also later on; and
\* combine_all_years runs only after the loop went through every year.
C1_FetchFailureIsolated ==
    /\ pc = "aborted" => propagated = "OSError"
    /\ propagated \notin FetchOrExtractErrors
    /\ (pc = "returned" /\ caught \in FetchOrExtractErrors)
          => returned = 0 /\ files[y] = Complete(<<>>)
    /\ \A yy \in failed_years : yy < y /\ files[yy] = Complete(<<>>)
    /\ pc \in {"combine", "csv", "done"} => y = THIS_YEAR + 1

\* the first year failed to fetch or extract, and the run still scraped
\* rows for the last year and finished
C1_Witness ==
    /\ pc = "done"
    /\ START_YEAR \in failed_years
    /\ files[THIS_YEAR].data # <<>>

\* the deduplication key of a record
DedupKey(r) == <<r.issue_date, Lower(r.song), Lower(r.artist)>>

\* C2: the combined dataset never holds two records of equal
\* (issue_date, lowercase(song), lowercase(artist)).
C2_DedupInvariant ==
    CombineDone =>
        \A i, j \in DOMAIN combined :
            i # j => DedupKey(combined[i]) # DedupKey(combined[j])

\* C3: in the combined dataset issue_date is non-decreasing, and among equal
\* issue_date the case-folded song is non-decreasing (records without a date
\* are left out of the comparison).
C3_SortInvariant ==
    CombineDone =>
        \A i, j \in DOMAIN combined :
            (i < j /\ combined[i].issue_date # None /\ combined[j].issue_date # None)
            => /\ StrLeq(combined[i].issue_date, combined[j].issue_date)
               /\ combined[i].issue_date = combined[j].issue_date
                    => StrLeq(Lower(combined[i].song), Lower(combined[j].song))

HeaderRoles(i) == DOMAIN header_map_from_table(Pages[html][i])

IsCalendarDate(d) ==
    /\ Len(d) = 10
    /\ IsoMatch(d)
    /\ StrToNat(SubSeq(d, 1, 4)) >= 1
    /\ StrToNat(SubSeq(d, 6, 7)) \in 1..12
    /\ StrToNat(SubSeq(d, 9, 10)) \in
          1..DaysInMonth(StrToNat(SubSeq(d, 6, 7)), StrToNat(SubSeq(d, 1, 4)))

\* C6: "January 6" with hint 2018, "Jan. 6, 2018" and "2018-01-06" with any
\* hint all give "2018-01-06"; "not a date" gives None; an abbreviated month
\* is read as the full month; every other result is None or a strict
\* YYYY-MM-DD string naming a date of the calendar.
C6_DateNormalization ==
    pc = "parsed" =>
        /\ (cell_text = Txt_January_6 /\ year_hint = 2018) => parsed = Txt_2018_01_06
        /\ cell_text = Txt_Jan_6_2018 => parsed = Txt_2018_01_06
        /\ cell_text = Txt_2018_01_06 => parsed = Txt_2018_01_06
        /\ (cell_text = Txt_not_a_date /\ year_hint = 2018) => parsed = None
        /\ cell_text = Txt_Sept_30 =>
              parsed = NatToStr(year_hint, 4) \o <<"-","0","9","-","3","0">>
        /\ parsed # None => IsCalendarDate(parsed)

\* C7: every record extract_rows_for_year emits has a non-empty song.
C7_SongNonEmpty ==
    Extracted => \A i \in DOMAIN rows : rows[i].song # <<>>

\* C8: a write of an output artifact that raises is fatal: main does not
\* return 0 after one, and scrape_year never returns after catching the
\* OSError of the write of its rows.
C8_WriteFailureFatal ==
    /\ pc = "done" => write_raised = {}
    /\ ~(pc = "returned" /\ caught = "OSError")

\* C9: a per-year file is always absent or a complete document.
C9_YearFileAtomic ==
    \A yy \in Years : ~files[yy].exists \/ files[yy].complete

\* fetch_html has just raised into the except clause of scrape_year
FetchRaised == pc = "open" /\ in_except /\ caught \in FetchErrors

\* the exception of the most recent request that raised, "none" if none did
RECURSIVE MostRecentExc(_)
MostRecentExc(rs) ==
    IF rs = <<>> THEN "none"
    ELSE IF rs[Len(rs)].exc # "none" THEN rs[Len(rs)].exc
    ELSE MostRecentExc(SubSeq(rs, 1, Len(rs) - 1))

\* the safety part of C10, in every state
C10_Protocol ==
    /\ Len(reqs) <= RETRY_COUNT
    /\ \A i \in 1..(Len(reqs) - 1) : reqs[i].status # 200
    /\ pc = "fetch" =>
          Len(reqs) < RETRY_COUNT /\ \A i \in DOMAIN reqs : reqs[i].status # 200
    /\ pc = "extract" =>
          /\ reqs # <<>>
          /\ reqs[Len(reqs)].status = 200
          /\ html = reqs[Len(reqs)].text
    /\ FetchRaised =>
          /\ Len(reqs) = RETRY_COUNT
          /\ \A i \in DOMAIN reqs : reqs[i].status # 200
          /\ caught = IF MostRecentExc(reqs) # "none"
                      THEN MostRecentExc(reqs) ELSE "RuntimeError"

\* C10: fetch_html issues at most RETRY_COUNT requests and none after the
\* first 200, whose text it returns; it returns only after a 200; otherwise
\* it raises after exactly RETRY_COUNT requests, the most recent exception
\* of a request if there is one and else a RuntimeError; and it always ends.
C10_FetchRetryProtocol ==
    /\ []C10_Protocol
    /\ (pc = "fetch") ~> (pc # "fetch")

\* fetch_html raised after a ConnectionError, a Timeout and a 404, in that
\* order: the Timeout is what it raised
C10_Witness ==
    /\ FetchRaised
    /\ Len(reqs) = RETRY_COUNT
    /\ reqs[1].exc = "ConnectionError"
    /\ reqs[2].exc = "Timeout"
    /\ reqs[RETRY_COUNT].status = 404
    /\ caught = "Timeout"

====
